---- MODULE Spec2Model ----
(***************************************************************************)
(* Batch sender of the WhatsApp automation: runBatch and the functions it  *)
(* drives (normalizeContactId, resolveChatId, the skip policy, sendOnce,   *)
(* sendAndVerify, sendViaBrowser), against a transport (the whatsapp-web   *)
(* client) whose sends may resolve, reject, or never settle.               *)
(*                                                                         *)
(* Strings that the code inspects character by character (contacts, chat   *)
(* ids) are sequences of one-character strings; message bodies and error   *)
(* texts, which the code only compares, are TLA+ strings.                  *)
(***************************************************************************)
EXTENDS Integers, Sequences, FiniteSets, TLC

(***************************************************************************)
(* Bounds of the model.                                                    *)
(***************************************************************************)
MaxItems == 2          \* longest batch
MaxRetries == 1        \* largest options.maxVerifyRetries drawn
MaxDays == 1           \* midnights that may pass during a run
MaxFaults == 2         \* transport answers other than the good one during a run
SecondsPerDay == 2     \* length of a (scaled) day in timestamp seconds
DaysPerMonth == 2      \* length of a (scaled) month
MonthsPerYear == 2     \* length of a (scaled) year
MaxDigitsLen == 14     \* longest digit string handed to ensureBrazilian13Digits
MaxDelay == 4          \* largest delay bound handed to randomDelayMs
MaxReady == 2          \* 'ready' events the client emits during a run of the script

(***************************************************************************)
(* Program constants.                                                      *)
(***************************************************************************)
BrazilLen == 13                     \* ensureBrazilian13Digits: d.length < 13
AreaPrefixLen == 4                  \* ensureBrazilian13Digits: d.length >= 4, slice(0, 4)
DEFAULT_MAX_VERIFY_RETRIES == 2
MsPerSecond == 1000                 \* isTodayUnix: unixSeconds * 1000
BATCH_SEND_TIMEOUT_MS == 60000      \* config: the default of options.sendTimeoutMs

(***************************************************************************)
(* JavaScript values that are not strings or numbers.  null and undefined  *)
(* stand where a body or an error text may stand; NoId where a chat id may *)
(* stand; an object that may be null is a sequence of at most one element. *)
(***************************************************************************)
Null == "<null>"
Undefined == "<undefined>"
NoId == <<"<none>">>
\* A number that was not given (an option not passed, a missing timestamp)
Unset == 0 - 2

(***************************************************************************)
(* Character-level string helpers.                                         *)
(***************************************************************************)
Digits == {"0", "1", "2", "3", "4", "5", "6", "7", "8", "9"}

IsDigit(ch) == ch \in Digits

\* s.replace(/\D/g, ''): only the digits are kept, in their order
StripNonDigits(s) == SelectSeq(s, IsDigit)

\* String(contact).trim(): leading and trailing blanks removed
Trim(s) ==
  LET inked == {k \in 1..Len(s) : s[k] # " "}
  IN IF inked = {} THEN << >>
     ELSE SubSeq(s, CHOOSE k \in inked : \A j \in inked : k <= j,
                    CHOOSE k \in inked : \A j \in inked : k >= j)

Includes(s, ch) == \E k \in 1..Len(s) : s[k] = ch

\* s.replace(/@.*$/, ''): everything from the first '@' on is dropped
CutAtAt(s) ==
  LET ats == {k \in 1..Len(s) : s[k] = "@"}
  IN IF ats = {} THEN s
     ELSE SubSeq(s, 1, (CHOOSE k \in ats : \A j \in ats : k <= j) - 1)

EndsWith(s, suffix) ==
  /\ Len(s) >= Len(suffix)
  /\ SubSeq(s, Len(s) - Len(suffix) + 1, Len(s)) = suffix

AtCUs == <<"@", "c", ".", "u", "s">>
AtLid == <<"@", "l", "i", "d">>

(***************************************************************************)
(* Pacing.                                                                 *)
(***************************************************************************)
\* Math.random() answers random / RandomGrain, a number of [0, 1)
RandomGrain == 2 * (MaxDelay + 1)
Randoms == 0..(RandomGrain - 1)

\* Mutant of randomDelayMs: the range is taken one short.
randomDelayMsExclusive(minMs, maxMs, random) ==
  IF minMs >= maxMs THEN minMs
  ELSE ((random * (maxMs - minMs)) \div RandomGrain) + minMs

\* Math.floor(Math.random() * (maxMs - minMs + 1)) + minMs
randomDelayMs(minMs, maxMs, random) ==
  IF minMs >= maxMs THEN minMs
  ELSE ((random * (maxMs - minMs + 1)) \div RandomGrain) + minMs

(***************************************************************************)
(* Contact identity resolver (pure part).                                  *)
(***************************************************************************)
\* Mutant of ensureBrazilian13Digits: one '9' is inserted, without looping.
ensureBrazilian13DigitsOnce(d) ==
  IF Len(d) < BrazilLen /\ Len(d) >= AreaPrefixLen
  THEN SubSeq(d, 1, AreaPrefixLen) \o <<"9">> \o SubSeq(d, AreaPrefixLen + 1, Len(d))
  ELSE d

RECURSIVE ensureBrazilian13Digits(_)
ensureBrazilian13Digits(d) ==
  IF Len(d) < BrazilLen /\ Len(d) >= AreaPrefixLen
  THEN ensureBrazilian13Digits(SubSeq(d, 1, AreaPrefixLen) \o <<"9">>
                               \o SubSeq(d, AreaPrefixLen + 1, Len(d)))
  ELSE d

\* Mutant of normalizeContactWithFix: any short number is reported as fixed.
normalizeContactWithFixAnyShort(contact) ==
  LET trimmed == StripNonDigits(Trim(contact))
  IN IF trimmed = << >> THEN [normalized |-> contact, wasFixed |-> FALSE]
     ELSE [normalized |-> ensureBrazilian13Digits(trimmed) \o AtCUs,
           wasFixed |-> Len(trimmed) < BrazilLen]

normalizeContactWithFix(contact) ==
  LET trimmed == StripNonDigits(Trim(contact))
  IN IF trimmed = << >> THEN [normalized |-> contact, wasFixed |-> FALSE]
     ELSE IF Includes(trimmed, "@") THEN [normalized |-> contact, wasFixed |-> FALSE]
     ELSE [normalized |-> ensureBrazilian13Digits(trimmed) \o AtCUs,
           wasFixed |-> Len(trimmed) < BrazilLen /\ Len(trimmed) >= AreaPrefixLen]

normalizeContactId(contact) == normalizeContactWithFix(contact).normalized

contactDigits(contactId) == StripNonDigits(CutAtAt(contactId))

\* `${contactDigits(contactId)}@lid`
LidIdOf(contactId) == contactDigits(contactId) \o AtLid


(***************************************************************************)
(* Inputs: the raw contacts and message bodies the batches are built from. *)
(***************************************************************************)
ContactEmpty == << >>
Contact12 == <<"5", "5", "4", "7", "9", "9", "5", "1", "2", "3", "4", "6">>
ContactFormatted ==
  <<"+", "5", "5", " ", "1", "1", " ", "9", "9", "9", "9", "9", "-", "9", "9", "9", "9">>

BatchItems ==
  { [contact |-> Contact12, message |-> "Hi"],
    [contact |-> ContactFormatted, message |-> "Bye"],
    [contact |-> ContactEmpty, message |-> "Hi"] }

RECURSIVE SeqsUpTo(_, _)
SeqsUpTo(S, n) ==
  IF n = 0 THEN { << >> }
  ELSE LET shorter == SeqsUpTo(S, n - 1)
       IN shorter \cup { Append(q, x) : q \in { t \in shorter : Len(t) = n - 1 }, x \in S }

\* The conversations of the transport are keyed by the digits of the chat id.
Persons == { contactDigits(normalizeContactId(it.contact)) : it \in BatchItems }

(***************************************************************************)
(* Calendar of the clock (JavaScript Date, local time), scaled.            *)
(***************************************************************************)
\* First day of the run: date 0 of month 1 of year 1, so that a day of the
\* same date in another month of the same year lies in the past.
StartDay == DaysPerMonth * MonthsPerYear + DaysPerMonth
StartNow == StartDay * SecondsPerDay + 1
MaxNow == StartNow + MaxDays * SecondsPerDay

Today0 == StartDay * SecondsPerDay
Yesterday0 == (StartDay - 1) * SecondsPerDay + 1
LastMonth0 == (StartDay - DaysPerMonth) * SecondsPerDay

\* new Date(ms): getFullYear(), getMonth(), getDate()
DateOf(ms) ==
  LET day == ms \div (SecondsPerDay * MsPerSecond)
  IN [year |-> day \div (DaysPerMonth * MonthsPerYear),
      month |-> (day \div DaysPerMonth) % MonthsPerYear,
      date |-> day % DaysPerMonth]

\* A timestamp that is not a finite number (NaN, undefined) is kept as this value.
NotANumber == 0 - 1

\* Number.isFinite
IsFinite(x) == x # NotANumber

\* Mutant of isTodayUnix: the month is not compared.
isTodayUnixNoMonth(unixSeconds, nowSeconds) ==
  IF ~IsFinite(unixSeconds) THEN FALSE
  ELSE LET d == DateOf(unixSeconds * MsPerSecond)
           today == DateOf(nowSeconds * MsPerSecond)
       IN /\ d.year = today.year
          /\ d.date = today.date

isTodayUnix(unixSeconds, nowSeconds) ==
  IF ~IsFinite(unixSeconds) THEN FALSE
  ELSE LET d == DateOf(unixSeconds * MsPerSecond)
           today == DateOf(nowSeconds * MsPerSecond)
       IN /\ d.year = today.year
          /\ d.month = today.month
          /\ d.date = today.date

(***************************************************************************)
(* The transport's answers.                                                *)
(***************************************************************************)
\* What the conversation with the first contact may hold before the run:
\* the outbound messages, of which the model keeps the latest.
HistoryOptions ==
  { << >>,
    <<[body |-> "", timestamp |-> Today0]>>,
    <<[body |-> "Hi", timestamp |-> Today0]>>,
    <<[body |-> "Hi", timestamp |-> Yesterday0]>>,
    <<[body |-> "Hi", timestamp |-> LastMonth0]>>,
    <<[body |-> "Bye", timestamp |-> Unset]>> }

\* chat.fetchMessages({ fromMe: true }) of getChatById(id): rejects, or the
\* outbound messages of the conversation.
FetchAnswers(chatState, id) ==
  LET p == contactDigits(id)
  IN { [ok |-> FALSE, messages |-> << >>],
       [ok |-> TRUE, messages |-> IF p \in DOMAIN chatState THEN chatState[p] ELSE << >>] }

\* { body, timestamp } or null (the empty sequence)
getLastMessageFromMeWithDate(answer) ==
  IF ~answer.ok THEN << >>
  ELSE IF Len(answer.messages) = 0 THEN << >>
  ELSE LET last == answer.messages[Len(answer.messages)]
       IN <<[body |-> last.body,
             timestamp |-> IF last.timestamp # Unset THEN last.timestamp ELSE 0]>>

\* Mutant of getLastMessageFromMe: the history is never found.
getLastMessageFromMeBlind(answer) == Null

getLastMessageFromMe(answer) ==
  LET withDate == getLastMessageFromMeWithDate(answer)
  IN IF withDate # << >> THEN withDate[1].body ELSE Null

\* JavaScript truthiness of an error text or body, and of a chat id
Truthy(x) == x \notin {Null, Undefined, ""}
TruthyId(id) == id # NoId /\ id # << >>

\* The answers of getChats / getContactLidAndPhone / getNumberId for a contact:
\* each step is absent on the client, rejects, or answers.
ResolveAnswers(contactId) ==
  LET lid == LidIdOf(contactId)
      other == <<"9", "9">> \o AtCUs
  IN [ chats : [kind : {"absent", "rejected"}, list : {<< >>}]
               \cup [kind : {"ok"}, list : {<<other, lid>>}],
       lidpn : [kind : {"absent", "rejected"}, list : {<< >>}]
               \cup [kind : {"ok"},
                     list : {<<[lid |-> lid, pn |-> contactId]>>,
                             <<[lid |-> NoId, pn |-> contactId]>>}],
       wid : [kind : {"rejected"}, id : {NoId}]
             \cup [kind : {"ok"}, id : {contactId}] ]

RECURSIVE FindChat(_, _, _)
\* chats.find(...): the first chat whose digits equal the target's or whose id is the target
FindChat(chats, digits, contactId) ==
  IF chats = << >> THEN NoId
  ELSE IF /\ Head(chats) # NoId
             /\ (contactDigits(Head(chats)) = digits \/ Head(chats) = contactId)
       THEN Head(chats)
  ELSE FindChat(Tail(chats), digits, contactId)

\* Mutant of resolveChatId: the phone form is preferred to the alias.
resolveChatIdPnFirst(contactId, answers) ==
  LET digits == contactDigits(contactId)
      match == IF answers.chats.kind # "ok" THEN NoId
               ELSE FindChat(answers.chats.list, digits, contactId)
      pair == IF answers.lidpn.kind # "ok" THEN << >> ELSE answers.lidpn.list
  IN IF TruthyId(match) THEN match
     ELSE IF pair # << >> /\ TruthyId(pair[1].pn) THEN pair[1].pn
     ELSE IF pair # << >> /\ TruthyId(pair[1].lid) THEN pair[1].lid
     ELSE IF answers.wid.kind = "ok" /\ answers.wid.id # NoId THEN answers.wid.id
     ELSE contactId

resolveChatId(contactId, answers) ==
  LET digits == contactDigits(contactId)
      match == IF answers.chats.kind # "ok" THEN NoId
               ELSE FindChat(answers.chats.list, digits, contactId)
      pair == IF answers.lidpn.kind # "ok" THEN << >> ELSE answers.lidpn.list
  IN IF TruthyId(match) THEN match
     ELSE IF pair # << >> /\ TruthyId(pair[1].lid) THEN pair[1].lid
     ELSE IF pair # << >> /\ TruthyId(pair[1].pn) THEN pair[1].pn
     ELSE IF answers.wid.kind = "ok" /\ answers.wid.id # NoId THEN answers.wid.id
     ELSE contactId

ErrNoLid == "No LID for user"
ErrOther == "Not registered"
ErrTimeout == "Send timeout after"
ErrNoBrowser == "No browser (pupBrowser) available"
ErrInvalidDigits == "Invalid phone digits"
ErrPage == "Message input not found after opening chat"
ErrVerifyNone == "Verification failed: no last message from us"
ErrVerifyMismatch == "Verification failed: last message does not match"

\* err && (err.message || String(err)): the text of the Error
ErrMessage(err) == IF err = Undefined THEN Undefined ELSE err

\* Mutant of isNoLidError: every error counts as the alias-required error.
isNoLidErrorAny(err) == TRUE

\* line 213: the text names the missing LID
isNoLidError(err) == err = ErrNoLid

\* Mutant of TimerArmed: no timer is ever armed.
TimerArmedNever(ms) == FALSE

\* withTimeout(promise, ms): the timer is armed only for ms > 0
TimerArmed(ms) == ms > 0


(***************************************************************************)
(* State.                                                                  *)
(***************************************************************************)
VARIABLES
  items,        \* runBatch's items: a sequence of { contact, message }
  options,      \* runBatch's options
  client,       \* the shared client: [pupBrowser]
  chat,         \* transport: per person, the outbound messages (latest kept)
  now,          \* wall clock, Unix seconds
  pc,           \* position of runBatch
  i,            \* 1-based index of the item being processed (the code's i + 1)
  contactId,    \* normalizeContactId(items[i].contact)
  resolvedId,   \* runBatch's resolvedId
  chatId,       \* sendOnce's / sendAndVerify's chatId
  attempt,      \* sendAndVerify's attempt
  lastError,    \* sendAndVerify's lastError
  inflight,     \* the send the loop is awaiting (a set of at most one operation)
  abandoned,    \* sends given up on timeout and still outstanding at the transport
  faults,       \* how often the transport has answered other than well so far
  results, sent, failed,
  obs,          \* what was observed while the current (or last) item was processed
  batchAborted, \* run-batch: set by the 'disconnected' handler
  abortedAt,    \* how many items had been started when the disconnect was recorded
  exitStatus,   \* run-batch: the status handed to process.exit
  summary,      \* run-batch: what the summary step reported
  call,         \* the last call of a pure function: its name, arguments and result
  batchAlreadyStarted, \* run-batch: set by the first 'ready' event
  readyEvents,  \* how many 'ready' events the client has emitted
  batchRuns,    \* how often the script has invoked runBatch
  run,          \* which run over the items this is: the first, or the re-run
  received      \* the persons who had a message from us when the re-run began

vars == <<items, options, client, chat, now, pc, i, contactId, resolvedId, chatId,
          attempt, lastError, inflight, abandoned, faults, results, sent, failed, obs,
          batchAborted, abortedAt, exitStatus, summary, call,
          batchAlreadyStarted, readyEvents, batchRuns, run, received>>

\* What lies outside runBatch: the wrapping script and the function calls
outer == <<batchAborted, abortedAt, exitStatus, summary, call,
           batchAlreadyStarted, readyEvents, batchRuns, run, received>>

inputs == <<items, options, client>>
report == <<results, sent, failed>>
locals == <<contactId, resolvedId, chatId, attempt, lastError>>

\* Options a mode never reads are left at one value.
OptionSets ==
  { o \in [skipVerify : BOOLEAN, useBrowserSend : BOOLEAN,
           skipIfEverSent : BOOLEAN, skipIfSentToday : BOOLEAN,
           sendTimeoutMs : {0, BATCH_SEND_TIMEOUT_MS},
           maxVerifyRetries : 0..MaxRetries] :
      /\ o.useBrowserSend => ~o.skipVerify /\ o.sendTimeoutMs = BATCH_SEND_TIMEOUT_MS
      /\ (o.useBrowserSend \/ o.skipVerify) => o.maxVerifyRetries = 0
      /\ o.skipIfEverSent => o.skipIfSentToday }

\* runBatch, lines 432-438, and sendAndVerify, lines 321-324
skipVerify == options.skipVerify = TRUE
useBrowserSend == options.useBrowserSend = TRUE
skipIfEverSent == options.skipIfEverSent # FALSE
skipIfSentToday == options.skipIfSentToday # FALSE
sendTimeoutMs == options.sendTimeoutMs
maxVerifyRetries ==
  IF options.maxVerifyRetries = Unset THEN DEFAULT_MAX_VERIFY_RETRIES
  ELSE options.maxVerifyRetries
total == Len(items)

NotRead == "<not read>"

FreshObs ==
  [item |-> 0, sends |-> 0, landed |-> 0, attempts |-> 0, timeouts |-> 0,
   verifyReads |-> 0, verifyMismatches |-> 0,
   alreadySentRead |-> NotRead,
   policyRead |-> NotRead, policyTs |-> NotANumber, policyNow |-> NotANumber,
   everReads |-> 0, todayReads |-> 0, policyRejected |-> FALSE, lookups |-> 0,
   attemptSends |-> 0, firstErr |-> Undefined, aliasable |-> FALSE,
   log |-> << >>, progressCalls |-> 0, progressArgs |-> << >>, progressAt |-> 0,
   delivered |-> FALSE, done |-> FALSE,
   sent0 |-> 0, failed0 |-> 0, sent1 |-> 0, failed1 |-> 0]

\* `events` happened, in this order, while the item was processed: "pace" is
\* sleep(randomDelayMs(minDelayMs, maxDelayMs)), "wait" sleep(verifyDelayMs),
\* "settle" sleep(2500), "progress" onProgress(...), "lookup" resolveChatId,
\* "read" and "verify" a history read, "send" a send handed to the transport.
Logged(o, events) == [o EXCEPT !.log = @ \o events]

NoCall == [fn |-> "none"]

\* Nothing has happened yet, in runBatch and around it
Blank ==
  /\ i = 1
  /\ contactId = NoId
  /\ resolvedId = NoId
  /\ chatId = NoId
  /\ attempt = 0
  /\ lastError = Undefined
  /\ inflight = {}
  /\ abandoned = {}
  /\ faults = 0
  /\ results = << >>
  /\ sent = 0
  /\ failed = 0
  /\ obs = FreshObs
  /\ batchAborted = FALSE
  /\ abortedAt = Unset
  /\ exitStatus = Unset
  /\ summary = "none"
  /\ call = NoCall
  /\ batchAlreadyStarted = FALSE
  /\ readyEvents = 0
  /\ batchRuns = 0
  /\ run = 1
  /\ received = {}

\* runBatch is entered: lines 439-445
Started == pc = "loop" /\ Blank

\* run-batch waits for the client to become ready: lines 168-186
Idle == pc = "idle" /\ Blank

Init ==
  /\ items \in SeqsUpTo(BatchItems, MaxItems)
  /\ options \in OptionSets
  /\ client \in {c \in [pupBrowser : BOOLEAN] : ~options.useBrowserSend => c.pupBrowser}
  /\ \E h \in HistoryOptions :
       \* only the sent-today policy reads timestamps
       /\ IF (skipIfEverSent \/ ~skipIfSentToday) /\ h # << >>
          THEN h[1].timestamp \in {Today0, Unset} ELSE TRUE
       /\ chat = [p \in Persons |->
                    IF p = contactDigits(normalizeContactId(Contact12)) THEN h ELSE << >>]
  /\ now = StartNow
  /\ Started

(***************************************************************************)
(* runBatch: the loop over the items.                                      *)
(***************************************************************************)
ResetLocals ==
  /\ contactId' = NoId
  /\ resolvedId' = NoId
  /\ chatId' = NoId
  /\ attempt' = 0
  /\ lastError' = Undefined

\* A result of sendViaBrowser / sendOnce / sendAndVerify
Success == [success |-> TRUE, error |-> Undefined, retried |-> Unset, alreadySent |-> FALSE]
Failure(err) == [success |-> FALSE, error |-> err, retried |-> Unset, alreadySent |-> FALSE]

\* Mutant of OutcomeOf: retried is copied whenever the result has one, 0 included.
OutcomeOfAlwaysRetried(id, result) ==
  IF result.success
  THEN IF result.retried # Unset
       THEN IF result.alreadySent
            THEN [contact |-> id, success |-> TRUE, retried |-> result.retried,
                  alreadySent |-> TRUE]
            ELSE [contact |-> id, success |-> TRUE, retried |-> result.retried]
       ELSE IF result.alreadySent
            THEN [contact |-> id, success |-> TRUE, alreadySent |-> TRUE]
            ELSE [contact |-> id, success |-> TRUE]
  ELSE [contact |-> id, success |-> FALSE, error |-> result.error]

\* lines 505-516: the outcome pushed for a result, and the counters
OutcomeOf(id, result) ==
  IF result.success
  THEN IF result.retried # Unset /\ result.retried > 0
       THEN IF result.alreadySent
            THEN [contact |-> id, success |-> TRUE, retried |-> result.retried,
                  alreadySent |-> TRUE]
            ELSE [contact |-> id, success |-> TRUE, retried |-> result.retried]
       ELSE IF result.alreadySent
            THEN [contact |-> id, success |-> TRUE, alreadySent |-> TRUE]
            ELSE [contact |-> id, success |-> TRUE]
  ELSE [contact |-> id, success |-> FALSE, error |-> result.error]

\* Mutant of Finish: an outcome short-circuited as alreadySent is not counted.
FinishAlreadySentUncounted(result, o) ==
  /\ results' = Append(results, OutcomeOf(contactId, result))
  /\ sent' = IF result.success /\ ~result.alreadySent THEN sent + 1 ELSE sent
  /\ failed' = IF result.success THEN failed ELSE failed + 1
  /\ i' = i + 1
  /\ pc' = "loop"
  /\ ResetLocals
  /\ obs' = [o EXCEPT !.done = TRUE, !.sent1 = sent', !.failed1 = failed']

\* The item's processing ends with `result`: lines 505-516 and the loop's i++.
\* `o` is the item's observation record as this step leaves it.
Finish(result, o) ==
  /\ results' = Append(results, OutcomeOf(contactId, result))
  /\ sent' = IF result.success THEN sent + 1 ELSE sent
  /\ failed' = IF result.success THEN failed ELSE failed + 1
  /\ i' = i + 1
  /\ pc' = "loop"
  /\ ResetLocals
  /\ obs' = [o EXCEPT !.done = TRUE, !.sent1 = sent', !.failed1 = failed']

\* Mutant of SkipWith: the skipped item is dropped without an outcome.
SkipWithDropped(outcome, o) ==
  /\ UNCHANGED <<results, sent, failed>>
  /\ i' = i + 1
  /\ pc' = "loop"
  /\ ResetLocals
  /\ obs' = [o EXCEPT !.done = TRUE, !.sent1 = sent, !.failed1 = failed]

\* Mutant of SkipWith: the skipped item is counted as sent.
SkipWithCounted(outcome, o) ==
  /\ results' = Append(results, outcome)
  /\ sent' = sent + 1
  /\ UNCHANGED failed
  /\ i' = i + 1
  /\ pc' = "loop"
  /\ ResetLocals
  /\ obs' = [o EXCEPT !.done = TRUE, !.sent1 = sent', !.failed1 = failed]

\* lines 468-469 / 479-480: a skip outcome is pushed and the loop continues
SkipWith(outcome, o) ==
  /\ results' = Append(results, outcome)
  /\ UNCHANGED <<sent, failed>>
  /\ i' = i + 1
  /\ pc' = "loop"
  /\ ResetLocals
  /\ obs' = [o EXCEPT !.done = TRUE, !.sent1 = sent, !.failed1 = failed]

\* The transport answers; an answer other than the good one (a rejection, a
\* timeout, a silently dropped message) uses up one of the run's MaxFaults.
Answer(isFault) ==
  /\ isFault => faults < MaxFaults
  /\ faults' = IF isFault THEN faults + 1 ELSE faults

\* The item's processing goes on at `next`.
GoOn(next, o) ==
  /\ pc' = next
  /\ UNCHANGED <<i, results, sent, failed>>
  /\ obs' = o

\* Mutant of ProgressArgs: the index is reported zero-based.
ProgressArgsZeroBased(index, id) == <<index - 1, total, id>>

\* line 452: onProgress(i + 1, total, contactId); `index` is the 1-based index
ProgressArgs(index, id) == <<index, total, id>>

\* Mutant of RetrySleep: the retry is paced like an item.
RetrySleepPaced == <<"pace">>

\* lines 367 and 373: await sleep(verifyDelayMs)
RetrySleep == <<"wait">>

\* lines 449-450: await sleep(randomDelayMs(minDelayMs, maxDelayMs))
PacingSleep == <<"pace">>

\* lines 445-458: next item: normalize, pace, report progress, resolve the chat
\* id when a skip policy is on.
BeginItem ==
  /\ pc = "loop"
  /\ i <= total
  /\ \E id \in {normalizeContactId(items[i].contact)} :
       /\ contactId' = id
       /\ \E answers \in ResolveAnswers(id) :
            resolvedId' = IF skipIfEverSent \/ skipIfSentToday
                          THEN resolveChatId(id, answers) ELSE NoId
       /\ GoOn("policy",
               [FreshObs EXCEPT !.item = i, !.sent0 = sent, !.failed0 = failed,
                                !.lookups = IF skipIfEverSent \/ skipIfSentToday
                                            THEN 1 ELSE 0,
                                !.progressCalls = obs.progressCalls + 1,
                                !.progressArgs = ProgressArgs(i, id),
                                !.progressAt = Len(results),
                                !.log = PacingSleep \o <<"progress">>
                                        \o (IF skipIfEverSent \/ skipIfSentToday
                                            THEN <<"lookup">> ELSE << >>)])
  /\ UNCHANGED <<inputs, outer, chat, now, chatId, attempt, lastError, inflight, abandoned, faults>>

\* Mutant of EverSentSkips: the emptiness test is inverted.
EverSentSkipsInverted(lastFromMe) == lastFromMe # Null /\ lastFromMe = ""

\* line 462
EverSentSkips(lastFromMe) == lastFromMe # Null /\ lastFromMe # ""

\* Mutant of PolicyEverSent: a rejected history read fails the item.
PolicyEverSentFailClosed ==
  /\ pc = "policy"
  /\ skipIfEverSent
  /\ \E answer \in FetchAnswers(chat, resolvedId) :
       LET lastFromMe == getLastMessageFromMe(answer)
           o == [obs EXCEPT !.policyRead = lastFromMe, !.policyNow = now,
                            !.everReads = @ + 1, !.policyRejected = ~answer.ok,
                            !.log = Append(@, "read")]
       IN /\ Answer(~answer.ok)
          /\ IF ~answer.ok
             THEN Finish(Failure(ErrOther), o)
             ELSE IF EverSentSkips(lastFromMe)
             THEN SkipWith([contact |-> contactId, success |-> TRUE,
                            skippedAlreadyReceived |-> TRUE], o)
             ELSE GoOn("deliver", [o EXCEPT !.delivered = TRUE]) /\ UNCHANGED locals
  /\ UNCHANGED <<inputs, outer, chat, now, inflight, abandoned>>

\* lines 460-470
PolicyEverSent ==
  /\ pc = "policy"
  /\ skipIfEverSent
  /\ \E answer \in FetchAnswers(chat, resolvedId) :
       LET lastFromMe == getLastMessageFromMe(answer)
           o == [obs EXCEPT !.policyRead = lastFromMe, !.policyNow = now,
                            !.everReads = @ + 1, !.policyRejected = ~answer.ok,
                            !.log = Append(@, "read")]
       IN /\ Answer(~answer.ok)
          /\ IF EverSentSkips(lastFromMe)
             THEN SkipWith([contact |-> contactId, success |-> TRUE,
                            skippedAlreadyReceived |-> TRUE], o)
             ELSE GoOn("deliver", [o EXCEPT !.delivered = TRUE]) /\ UNCHANGED locals
  /\ UNCHANGED <<inputs, outer, chat, now, inflight, abandoned>>

\* line 473
SentTodaySkips(lastFromMe, clock) ==
  lastFromMe # << >> /\ isTodayUnix(lastFromMe[1].timestamp, clock)

\* lines 471-482
PolicySentToday ==
  /\ pc = "policy"
  /\ ~skipIfEverSent
  /\ skipIfSentToday
  /\ \E answer \in FetchAnswers(chat, resolvedId) :
       LET lastFromMe == getLastMessageFromMeWithDate(answer)
           o == [obs EXCEPT
                   !.policyRead = IF lastFromMe = << >> THEN Null ELSE lastFromMe[1].body,
                   !.policyTs = IF lastFromMe = << >> THEN NotANumber
                                ELSE lastFromMe[1].timestamp,
                   !.policyNow = now,
                   !.todayReads = @ + 1, !.policyRejected = ~answer.ok,
                   !.log = Append(@, "read")]
       IN /\ Answer(~answer.ok)
          /\ IF SentTodaySkips(lastFromMe, now)
             THEN SkipWith([contact |-> contactId, success |-> TRUE,
                            skippedSameDay |-> TRUE], o)
             ELSE GoOn("deliver", [o EXCEPT !.delivered = TRUE]) /\ UNCHANGED locals
  /\ UNCHANGED <<inputs, outer, chat, now, inflight, abandoned>>

\* lines 456-482 with both policies off: nothing is looked up
PolicyOff ==
  /\ pc = "policy"
  /\ ~skipIfEverSent
  /\ ~skipIfSentToday
  /\ GoOn("deliver", [obs EXCEPT !.delivered = TRUE])
  /\ UNCHANGED <<inputs, outer, chat, now, locals, inflight, abandoned, faults>>

\* line 519
Return ==
  /\ pc = "loop"
  /\ i > total
  /\ pc' = "returned"
  /\ UNCHANGED <<inputs, outer, chat, now, i, locals, inflight, abandoned, faults, report, obs>>


(***************************************************************************)
(* The transport's send operation.                                         *)
(***************************************************************************)
\* client.sendMessage(id, message) issued for the current item
SendOp(id) ==
  [run |-> run, item |-> i, attempt |-> attempt, to |-> id, body |-> items[i].message]

\* The message of operation `op` lands in the conversation it was sent to.
Landed(chatState, op, clock) ==
  [chatState EXCEPT ![contactDigits(op.to)] = <<[body |-> op.body, timestamp |-> clock]>>]

\* How an awaited send settles: it resolves (the message landed, or the platform
\* dropped it silently), or it rejects with an Error (nothing landed).
Settlements ==
  [ok : {TRUE}, landed : BOOLEAN, err : {Undefined}]
  \cup [ok : {FALSE}, landed : {FALSE}, err : {ErrNoLid, ErrOther}]

(***************************************************************************)
(* sendViaBrowser and openChatAndSendMessage.                              *)
(***************************************************************************)
RECURSIVE PadAfterArea(_)
\* send-via-browser.js lines 109-111
PadAfterArea(d) ==
  IF Len(d) < BrazilLen /\ Len(d) >= AreaPrefixLen
  THEN PadAfterArea(SubSeq(d, 1, AreaPrefixLen) \o <<"9">> \o SubSeq(d, AreaPrefixLen + 1, Len(d)))
  ELSE d

\* send-via-browser.js lines 106-111: the digits the send URL is built from
BrowserDigits(phoneDigits) ==
  LET digits == StripNonDigits(phoneDigits)
  IN IF Len(digits) >= 2 /\ SubSeq(digits, 1, 2) = <<"5", "5">> THEN PadAfterArea(digits)
     ELSE PadAfterArea(<<"5", "5">> \o digits)

\* What the browser does once asked for a tab: newPage rejects, or the page is
\* driven and the send succeeds (landing the message) or fails.
BrowserAnswers == {"newPage rejects", "sent", "page fails"}

\* lines 485-493 with sendViaBrowser (lines 271-278) and openChatAndSendMessage
\* (send-via-browser.js lines 174-190): a rejection of newPage() is not caught
\* anywhere and leaves runBatch.
SendViaBrowser ==
  /\ pc = "deliver"
  /\ useBrowserSend
  /\ LET digits == contactDigits(contactId)
         o == [obs EXCEPT !.attempts = 1]
     IN IF ~client.pupBrowser
        THEN Finish(Failure(ErrNoBrowser), o) /\ UNCHANGED <<chat, faults>>
        ELSE \E answer \in BrowserAnswers :
               /\ Answer(answer # "sent")
               /\ IF answer = "newPage rejects"
                  THEN /\ pc' = "threw"
                       /\ obs' = o
                       /\ UNCHANGED <<i, locals, report, chat>>
                  ELSE IF StripNonDigits(digits) = << >>
                  THEN Finish(Failure(ErrInvalidDigits), o) /\ UNCHANGED chat
                  ELSE IF answer = "sent"
                  THEN /\ Finish(Success, Logged([o EXCEPT !.sends = 1, !.landed = 1],
                                                 <<"send", "settle">>))
                       /\ chat' = [chat EXCEPT ![BrowserDigits(digits)] =
                                     <<[body |-> items[i].message, timestamp |-> now]>>]
                  ELSE /\ Finish(Failure(ErrPage), Logged([o EXCEPT !.sends = 1], <<"send">>))
                       /\ UNCHANGED chat
  /\ UNCHANGED <<inputs, outer, now, inflight, abandoned>>

(***************************************************************************)
(* sendOnce and sendAndVerify.                                             *)
(***************************************************************************)
\* Mutant of SendOnceStart: the send is issued but not awaited.
SendOnceStartNoAwait ==
  /\ pc = "deliver"
  /\ ~useBrowserSend
  /\ skipVerify
  /\ \E answers \in ResolveAnswers(contactId) :
       inflight' = {SendOp(resolveChatId(contactId, answers))}
  /\ Finish(Success, Logged([obs EXCEPT !.sends = @ + 1, !.attempts = 1],
                            <<"lookup", "send">>))
  /\ UNCHANGED <<inputs, outer, chat, now, abandoned, faults>>

\* lines 289-292: sendOnce resolves the chat id and issues the send
SendOnceStart ==
  /\ pc = "deliver"
  /\ ~useBrowserSend
  /\ skipVerify
  /\ \E answers \in ResolveAnswers(contactId) :
       LET id == resolveChatId(contactId, answers)
       IN /\ chatId' = id
          /\ inflight' = {SendOp(id)}
  /\ GoOn("once1", Logged([obs EXCEPT !.sends = @ + 1, !.attempts = 1, !.lookups = @ + 1,
                                       !.attemptSends = 1], <<"lookup", "send">>))
  /\ UNCHANGED <<inputs, outer, chat, now, contactId, resolvedId, attempt, lastError, abandoned,
                 faults>>

\* Mutant of AlreadySent: the comparison is inverted.
AlreadySentInverted(lastBody, message) == lastBody # message

\* line 332
AlreadySent(lastBody, message) == lastBody = message

\* lines 321-340: sendAndVerify resolves the chat id and checks whether the
\* last message from us already is the message (runBatch passes no
\* checkAlreadySent, so the check is on)
SendAndVerifyStart ==
  /\ pc = "deliver"
  /\ ~useBrowserSend
  /\ ~skipVerify
  /\ \E answers \in ResolveAnswers(contactId) :
       LET id == resolveChatId(contactId, answers)
       IN \E answer \in FetchAnswers(chat, id) :
            LET lastBody == getLastMessageFromMe(answer)
                o == Logged([obs EXCEPT !.alreadySentRead = lastBody, !.lookups = @ + 1],
                            <<"lookup", "read">>)
            IN /\ Answer(~answer.ok)
               /\ IF AlreadySent(lastBody, items[i].message)
                  THEN Finish([Success EXCEPT !.alreadySent = TRUE], o)
                  ELSE /\ GoOn("savLoop", o)
                       /\ chatId' = id
                       /\ UNCHANGED <<contactId, resolvedId, attempt, lastError>>
  /\ UNCHANGED <<inputs, outer, chat, now, inflight, abandoned>>

\* Mutant of AttemptsRemain: the loop stops one attempt early.
AttemptsRemainStrict(k, max) == k < max

\* line 343: the loop condition
AttemptsRemain(k, max) == k <= max

\* lines 366 and 395
IsLastAttempt(k, max) == k = max

\* lines 343-347: an attempt starts and issues doSend(chatId); lines 402-403
\* when the loop condition fails
AttemptStart ==
  /\ pc = "savLoop"
  /\ IF AttemptsRemain(attempt, maxVerifyRetries)
     THEN /\ inflight' = {SendOp(chatId)}
          /\ GoOn("sav1", [obs EXCEPT !.sends = @ + 1, !.attempts = @ + 1,
                                       !.attemptSends = 1, !.firstErr = Undefined,
                                       !.aliasable = FALSE, !.log = Append(@, "send")])
          /\ UNCHANGED locals
     ELSE /\ Finish(Failure(lastError), obs)
          /\ UNCHANGED inflight
  /\ UNCHANGED <<inputs, outer, chat, now, abandoned, faults>>

\* lines 364-370: after a failed send of an attempt.  A falsy lastError (a
\* rejection without a reason) falls through to the verification.
AfterSendFail(le, o) ==
  IF Truthy(le)
  THEN IF IsLastAttempt(attempt, maxVerifyRetries)
       THEN Finish(Failure(le), o)
       ELSE /\ GoOn("savLoop", Logged(o, RetrySleep))
            /\ attempt' = attempt + 1
            /\ lastError' = le
            /\ UNCHANGED <<contactId, resolvedId, chatId>>
  ELSE /\ GoOn("savVerify", o)
       /\ lastError' = le
       /\ UNCHANGED <<contactId, resolvedId, chatId, attempt>>

\* Mutant of TriesAlias: the contact is not required to be phone-based.
TriesAliasAnyContact(err) ==
  /\ isNoLidError(err)
  /\ LidIdOf(contactId) # chatId

\* line 295 / 351-353: the alias form is tried after this error
TriesAlias(err) ==
  /\ isNoLidError(err)
  /\ EndsWith(contactId, AtCUs)
  /\ LidIdOf(contactId) # chatId

\* What the code does once the awaited send has resolved (ok) or thrown `err`
\* (a rejection, or withTimeout's 'Send timeout'): sendOnce lines 292-307,
\* sendAndVerify lines 347-371.
AfterSend(ok, err, o) ==
  LET \* the first send of the attempt has thrown `err`
      of == [o EXCEPT !.firstErr = err,
                      !.aliasable = /\ err = ErrNoLid
                                    /\ EndsWith(contactId, AtCUs)
                                    /\ LidIdOf(contactId) # chatId]
      \* and the alias send is issued
      oa == [of EXCEPT !.sends = @ + 1, !.attemptSends = @ + 1, !.log = Append(@, "send")]
  IN
  IF pc = "once1"
  THEN IF ok THEN Finish(Success, o) /\ inflight' = {}
       ELSE IF TriesAlias(err)
       THEN /\ inflight' = {SendOp(LidIdOf(contactId))}
            /\ GoOn("once2", oa)
            /\ UNCHANGED locals
       ELSE Finish(Failure(ErrMessage(err)), of) /\ inflight' = {}
  ELSE IF pc = "once2"
  THEN /\ inflight' = {}
       /\ IF ok THEN Finish(Success, o) ELSE Finish(Failure(ErrMessage(err)), o)
  ELSE IF pc = "sav1"
  THEN IF ok
       THEN /\ inflight' = {}
            /\ GoOn("savVerify", o)
            /\ UNCHANGED locals
       ELSE IF TriesAlias(err)
       THEN /\ inflight' = {SendOp(LidIdOf(contactId))}
            /\ GoOn("sav2", oa)
            /\ lastError' = ErrMessage(err)
            /\ UNCHANGED <<contactId, resolvedId, chatId, attempt>>
       ELSE inflight' = {} /\ AfterSendFail(ErrMessage(err), of)
  ELSE \* pc = "sav2"
       IF ok
       THEN /\ inflight' = {}
            /\ chatId' = LidIdOf(contactId)
            /\ lastError' = Null
            /\ GoOn("savVerify", o)
            /\ UNCHANGED <<contactId, resolvedId, attempt>>
       ELSE inflight' = {} /\ AfterSendFail(ErrMessage(err), o)

Awaiting == pc \in {"once1", "once2", "sav1", "sav2"}

\* The awaited send settles before any timeout.
SendSettles ==
  /\ Awaiting
  /\ \E op \in inflight, s \in Settlements :
       /\ Answer(~(s.ok /\ s.landed))
       /\ chat' = IF s.landed THEN Landed(chat, op, now) ELSE chat
       /\ AfterSend(s.ok, s.err, [obs EXCEPT !.landed = IF s.landed THEN @ + 1 ELSE @])
  /\ UNCHANGED <<inputs, outer, now, abandoned>>

\* withTimeout, lines 94-101: the timer wins the race; the send is not cancelled
\* and stays outstanding at the transport.
SendTimesOut ==
  /\ Awaiting
  /\ TimerArmed(sendTimeoutMs)
  /\ Answer(TRUE)
  /\ abandoned' = abandoned \cup inflight
  /\ AfterSend(FALSE, ErrTimeout, [obs EXCEPT !.timeouts = @ + 1])
  /\ UNCHANGED <<inputs, outer, chat, now>>

\* A send that was given up on timeout completes at the transport: its message
\* lands late.  Nobody awaits it any more.  (One that never completes stays in
\* `abandoned` for good.)
AbandonedLands ==
  /\ \E op \in abandoned :
       /\ abandoned' = abandoned \ {op}
       /\ chat' = Landed(chat, op, now)
       /\ obs' = IF op.run = run /\ op.item = obs.item
                 THEN [obs EXCEPT !.landed = @ + 1] ELSE obs
  /\ UNCHANGED <<inputs, outer, now, pc, i, locals, inflight, faults, report>>

\* lines 373-399: the verification read of an attempt
Verify ==
  /\ pc = "savVerify"
  /\ \E answer \in FetchAnswers(chat, chatId) :
       LET lastBody == getLastMessageFromMe(answer)
           message == items[i].message
           o == Logged([obs EXCEPT !.verifyReads = @ + 1], RetrySleep \o <<"verify">>)
           om == [o EXCEPT !.verifyMismatches = @ + 1]
           le == IF lastBody = Null THEN ErrVerifyNone ELSE ErrVerifyMismatch
       IN /\ Answer(~answer.ok)
          /\ IF lastBody = message
             THEN Finish([Success EXCEPT !.retried = attempt], o)
             ELSE IF IsLastAttempt(attempt, maxVerifyRetries)
             THEN Finish(Failure(le), om)
             ELSE /\ GoOn("savLoop", om)
                  /\ attempt' = attempt + 1
                  /\ lastError' = le
                  /\ UNCHANGED <<contactId, resolvedId, chatId>>
  /\ UNCHANGED <<inputs, outer, chat, now, inflight, abandoned>>

\* Midnight passes while the loop sleeps before an item (line 450); followed
\* only when the sent-today policy, which reads the calendar, is on.
Tick ==
  /\ now + SecondsPerDay <= MaxNow
  /\ ~skipIfEverSent /\ skipIfSentToday
  /\ pc = "loop"
  /\ i <= total
  /\ now' = now + SecondsPerDay
  /\ UNCHANGED <<inputs, outer, chat, pc, i, locals, inflight, abandoned, faults, report, obs>>

Next ==
  \/ BeginItem
  \/ PolicyEverSent
  \/ PolicySentToday
  \/ PolicyOff
  \/ SendViaBrowser
  \/ SendOnceStart
  \/ SendAndVerifyStart
  \/ AttemptStart
  \/ SendSettles
  \/ SendTimesOut
  \/ AbandonedLands
  \/ Verify
  \/ Return
  \/ Tick

Spec == Init /\ [][Next]_vars


(***************************************************************************)
(* The run-batch script around runBatch.                                   *)
(***************************************************************************)
\* Mutant of ScriptOptions: --force does not switch the skip policy off.
ScriptOptionsIgnoringForce(forceListOnly, envSkipIfEverSent, useApiSend) ==
  [skipVerify |-> FALSE,
   useBrowserSend |-> ~useApiSend,
   skipIfEverSent |-> envSkipIfEverSent,
   skipIfSentToday |-> envSkipIfEverSent,
   sendTimeoutMs |-> BATCH_SEND_TIMEOUT_MS,
   maxVerifyRetries |-> Unset]

\* run-batch lines 249-251 and 262-266: the options handed to runBatch, from
\* the --force and --api flags and the environment's skip setting
ScriptOptions(forceListOnly, envSkipIfEverSent, useApiSend) ==
  [skipVerify |-> FALSE,
   useBrowserSend |-> ~useApiSend,
   skipIfEverSent |-> IF forceListOnly THEN FALSE ELSE envSkipIfEverSent,
   skipIfSentToday |-> IF forceListOnly THEN FALSE ELSE envSkipIfEverSent,
   sendTimeoutMs |-> BATCH_SEND_TIMEOUT_MS,
   maxVerifyRetries |-> Unset]

\* The script runs a non-empty batch file (lines 161-164) on a ready client.
ScriptInit ==
  /\ items \in SeqsUpTo(BatchItems, MaxItems) \ {<< >>}
  /\ \E forceListOnly \in BOOLEAN, envSkipIfEverSent \in BOOLEAN, useApiSend \in BOOLEAN :
       options = ScriptOptions(forceListOnly, envSkipIfEverSent, useApiSend)
  /\ client \in {c \in [pupBrowser : BOOLEAN] : ~options.useBrowserSend => c.pupBrowser}
  /\ \E h \in {g \in HistoryOptions : g # << >> => g[1].timestamp \in {Today0, Unset}} :
       chat = [p \in Persons |->
                 IF p = contactDigits(normalizeContactId(Contact12)) THEN h ELSE << >>]
  /\ now = StartNow
  /\ Idle

\* Mutant of AlreadyStarted: the handler does not look at the flag.
AlreadyStartedIgnored(flag) == FALSE

\* line 186: if (batchAlreadyStarted) return
AlreadyStarted(flag) == flag

\* lines 185-272: client.on('ready'): the first event sets the flag and calls
\* runBatch; an event that finds the flag set returns at once.  (Were runBatch
\* called during a run, the run in progress would go on beside the new one;
\* only the call is counted.)
Ready ==
  /\ pc # "exited"
  /\ readyEvents < MaxReady
  /\ readyEvents' = readyEvents + 1
  /\ IF AlreadyStarted(batchAlreadyStarted)
     THEN UNCHANGED <<batchAlreadyStarted, batchRuns, pc>>
     ELSE /\ batchAlreadyStarted' = TRUE
          /\ batchRuns' = batchRuns + 1
          /\ pc' = IF pc = "idle" THEN "loop" ELSE pc
  /\ UNCHANGED <<inputs, chat, now, i, locals, inflight, abandoned, faults, report, obs,
                 batchAborted, abortedAt, exitStatus, summary, call, run, received>>

\* lines 180-183: client.on('disconnected'): the flag is set, nothing else
Disconnected ==
  /\ pc # "exited"
  /\ ~batchAborted
  /\ batchAborted' = TRUE
  /\ abortedAt' = obs.item
  /\ UNCHANGED <<inputs, chat, now, pc, i, locals, inflight, abandoned, faults, report, obs,
                 exitStatus, summary, call, batchAlreadyStarted, readyEvents, batchRuns,
                 run, received>>

\* Mutant of ExitStatusOf: the comparison includes zero.
ExitStatusOfAtLeast(failedCount) == IF failedCount >= 0 THEN 1 ELSE 0

\* line 288 and part_003 line 174: process.exit(failed > 0 ? 1 : 0)
ExitStatusOf(failedCount) == IF failedCount > 0 THEN 1 ELSE 0

\* lines 274-288: runBatch has returned; the summary is printed and the process exits
Summary ==
  /\ pc = "returned"
  /\ pc' = "exited"
  /\ summary' = IF batchAborted THEN "partial" ELSE "completed"
  /\ exitStatus' = ExitStatusOf(failed)
  /\ UNCHANGED <<inputs, chat, now, i, locals, inflight, abandoned, faults, report, obs,
                 batchAborted, abortedAt, call, batchAlreadyStarted, readyEvents, batchRuns,
                 run, received>>

\* lines 289-292: runBatch has thrown; the error is printed and the process exits
BatchRunError ==
  /\ pc = "threw"
  /\ pc' = "exited"
  /\ summary' = "error"
  /\ exitStatus' = 1
  /\ UNCHANGED <<inputs, chat, now, i, locals, inflight, abandoned, faults, report, obs,
                 batchAborted, abortedAt, call, batchAlreadyStarted, readyEvents, batchRuns,
                 run, received>>

\* The script never passes skipVerify nor a sent-today policy of its own.
ScriptNext ==
  \/ BeginItem
  \/ PolicyEverSent
  \/ PolicyOff
  \/ SendViaBrowser
  \/ SendAndVerifyStart
  \/ AttemptStart
  \/ SendSettles
  \/ SendTimesOut
  \/ AbandonedLands
  \/ Verify
  \/ Return
  \/ Ready
  \/ Disconnected
  \/ Summary
  \/ BatchRunError

ScriptSpec == ScriptInit /\ [][ScriptNext]_vars


(***************************************************************************)
(* runBatch called again over the same items, as a caller who re-runs a    *)
(* batch file does, with the default skip policy.                          *)
(***************************************************************************)
\* What the ever-sent policy takes for a contact that has received a message
\* (lines 461-462): a last message from us with a non-empty body
HasMessageFromUs(conversation) == conversation # << >> /\ conversation[1].body # ""

\* The first run meets contacts that have no message from us yet.
RerunInit ==
  /\ items \in SeqsUpTo(BatchItems, MaxItems) \ {<< >>}
  /\ options \in {o \in OptionSets : o.skipIfEverSent}
  /\ client \in {c \in [pupBrowser : BOOLEAN] : ~options.useBrowserSend => c.pupBrowser}
  /\ chat = [p \in Persons |-> << >>]
  /\ now = StartNow
  /\ Started

\* runBatch(client, items, options) is called once more after it returned:
\* lines 439-445 again, over the conversations as the first run left them
Rerun ==
  /\ pc = "returned"
  /\ run = 1
  /\ run' = 2
  /\ received' = { p \in DOMAIN chat : HasMessageFromUs(chat[p]) }
  /\ pc' = "loop"
  /\ i' = 1
  /\ results' = << >>
  /\ sent' = 0
  /\ failed' = 0
  /\ obs' = FreshObs
  /\ UNCHANGED <<inputs, chat, now, locals, inflight, abandoned, faults,
                 batchAborted, abortedAt, exitStatus, summary, call,
                 batchAlreadyStarted, readyEvents, batchRuns>>

RerunNext ==
  \/ BeginItem
  \/ PolicyEverSent
  \/ SendViaBrowser
  \/ SendOnceStart
  \/ SendAndVerifyStart
  \/ AttemptStart
  \/ SendSettles
  \/ SendTimesOut
  \/ AbandonedLands
  \/ Verify
  \/ Return
  \/ Rerun

RerunSpec == RerunInit /\ [][RerunNext]_vars

(***************************************************************************)
(* Fairness: the event loop runs every continuation that is ready, reads   *)
(* of the transport settle, and an armed timer fires unless the send       *)
(* settles first.  Nothing makes a send settle when no timer is armed, and *)
(* nothing makes an abandoned send complete.                               *)
(***************************************************************************)
LoopStep ==
  \/ BeginItem
  \/ PolicyEverSent
  \/ PolicySentToday
  \/ PolicyOff
  \/ SendViaBrowser
  \/ SendOnceStart
  \/ SendAndVerifyStart
  \/ AttemptStart
  \/ Verify
  \/ Return

SettlesOrTimesOut == TimerArmed(sendTimeoutMs) /\ (SendSettles \/ SendTimesOut)

\* Batches that write the same message to the same contact over and over
LiveInit == Init /\ \A k \in 1..Len(items) : items[k] = [contact |-> Contact12, message |-> "Hi"]

LiveSpec == LiveInit /\ [][Next]_vars /\ WF_vars(LoopStep) /\ WF_vars(SettlesOrTimesOut)

(***************************************************************************)
(* The exported functions called on their own, as the unit tests call them.*)
(***************************************************************************)
\* Contacts as callers write them: bare, formatted, already suffixed, without digits
ContactCUs13 == <<"5", "5", "1", "1", "9", "9", "9", "9", "9", "9", "9", "9", "9", "@", "c", ".", "u", "s">>
ContactCUs12 == <<"5", "5", "4", "7", "9", "9", "5", "1", "2", "3", "4", "6", "@", "c", ".", "u", "s">>
ContactLid == <<"5", "5", "1", "1", "9", "9", "9", "9", "9", "9", "9", "9", "9", "@", "l", "i", "d">>
ContactNoDigits == <<"a", "b", "c">>
ContactBroadcast == <<"s", "t", "a", "t", "u", "s", "@", "b", "r", "o", "a", "d", "c", "a", "s", "t">>
ContactPadded == <<" ", "5", "5", "1", "1", "9", "9", "9", "9", "9", "9", "9", "9", "9", " ">>

PureContacts ==
  { ContactEmpty, Contact12, ContactFormatted, ContactCUs13, ContactCUs12, ContactLid,
    ContactNoDigits, ContactBroadcast, ContactPadded }

\* The identities resolveChatId is called with
ResolveContacts == { normalizeContactId(c) : c \in {Contact12, ContactFormatted, ContactNoDigits} }

AliasOfLookup == <<"7", "7">> \o AtLid
PhoneOfLookup == <<"8", "8">> \o AtCUs
CanonicalId == <<"6", "6">> \o AtCUs
OtherChat == <<"9", "9">> \o AtCUs

\* What a client may answer to resolveChatId's three steps: the method is
\* absent, rejects, answers with something that is no list / no id, or answers.
ResolveCases(id) ==
  [ chats : [kind : {"absent", "rejected", "notArray"}, list : {<< >>}]
            \cup [kind : {"ok"},
                  list : {<< >>, <<OtherChat>>, <<OtherChat, LidIdOf(id)>>,
                          <<NoId, id>>, <<LidIdOf(id), id>>}],
    lidpn : [kind : {"absent", "rejected", "notArray"}, list : {<< >>}]
            \cup [kind : {"ok"},
                  list : {<< >>,
                          <<[lid |-> AliasOfLookup, pn |-> PhoneOfLookup]>>,
                          <<[lid |-> NoId, pn |-> PhoneOfLookup]>>,
                          <<[lid |-> AliasOfLookup, pn |-> NoId]>>,
                          <<[lid |-> NoId, pn |-> NoId]>>}],
    wid : [kind : {"absent", "rejected"}, id : {NoId}]
          \cup [kind : {"ok"}, id : {NoId, CanonicalId}] ]

batch == <<items, options, client, chat, now, pc, i, contactId, resolvedId, chatId,
           attempt, lastError, inflight, abandoned, faults, results, sent, failed, obs,
           batchAborted, abortedAt, exitStatus, summary,
           batchAlreadyStarted, readyEvents, batchRuns, run, received>>

\* One function is called in a run, as in one unit test
PureInit ==
  /\ items = << >>
  /\ options = ScriptOptions(FALSE, TRUE, FALSE)
  /\ client = [pupBrowser |-> TRUE]
  /\ chat = [p \in Persons |-> << >>]
  /\ now = StartNow
  /\ Started

\* normalizeContactId(contact)
CallNormalizeContactId ==
  /\ call = NoCall
  /\ \E c \in PureContacts :
       call' = [fn |-> "normalizeContactId", contact |-> c,
                result |-> normalizeContactId(c)]
  /\ UNCHANGED batch

\* await resolveChatId(client, contactId)
CallResolveChatId ==
  /\ call = NoCall
  /\ \E id \in ResolveContacts : \E answers \in ResolveCases(id) :
       call' = [fn |-> "resolveChatId", contact |-> id, answers |-> answers,
                result |-> resolveChatId(id, answers)]
  /\ UNCHANGED batch

\* The digit strings ensureBrazilian13Digits is called with
DigitStrings == SeqsUpTo({"5", "9"}, MaxDigitsLen)

\* ensureBrazilian13Digits(digits), and once more on what it returned
CallEnsureBrazilian13Digits ==
  /\ call = NoCall
  /\ \E d \in DigitStrings :
       \E r \in {ensureBrazilian13Digits(d)} :
         call' = [fn |-> "ensureBrazilian13Digits", digits |-> d, result |-> r,
                  again |-> ensureBrazilian13Digits(r)]
  /\ UNCHANGED batch

\* normalizeContactWithFix(contact)
CallNormalizeContactWithFix ==
  /\ call = NoCall
  /\ \E c \in PureContacts \cup DigitStrings :
       call' = [fn |-> "normalizeContactWithFix", contact |-> c,
                result |-> normalizeContactWithFix(c)]
  /\ UNCHANGED batch

\* randomDelayMs(minMs, maxMs): what this call returned, and what it may return
CallRandomDelayMs ==
  /\ call = NoCall
  /\ \E minMs \in 0..MaxDelay, maxMs \in 0..MaxDelay, random \in Randoms :
       call' = [fn |-> "randomDelayMs", minMs |-> minMs, maxMs |-> maxMs,
                result |-> randomDelayMs(minMs, maxMs, random),
                possible |-> { randomDelayMs(minMs, maxMs, r) : r \in Randoms }]
  /\ UNCHANGED batch

PureNext ==
  \/ CallNormalizeContactId
  \/ CallResolveChatId
  \/ CallEnsureBrazilian13Digits
  \/ CallNormalizeContactWithFix
  \/ CallRandomDelayMs

PureSpec == PureInit /\ [][PureNext]_vars


(***************************************************************************)
(* Properties.                                                             *)
(***************************************************************************)
VerifyMode == ~useBrowserSend /\ ~skipVerify
SkipFlagged(r) == "skippedAlreadyReceived" \in DOMAIN r \/ "skippedSameDay" \in DOMAIN r
\* The outcome of the item `obs` is about, once there is one
ObsOutcome == results[obs.item]
ObsMessage == items[obs.item].message
ObsContactId == normalizeContactId(items[obs.item].contact)

\* C1: when runBatch returns, results holds one outcome per item, and the
\* outcome at position k carries the normalized identity of item k's contact,
\* whatever mix of skipped, successful and failed items the batch contains.
C1_OneOutcomePerItemInOrder ==
  pc = "returned" =>
    /\ Len(results) = Len(items)
    /\ \A k \in 1..Len(items) : results[k].contact = normalizeContactId(items[k].contact)

\* A batch has returned with a skipped item followed by a failed one.
C1_Witness ==
  /\ pc = "returned"
  /\ Len(items) = 2
  /\ SkipFlagged(results[1])
  /\ ~results[2].success

\* C2: runBatch never throws because of a per-item problem: every item that
\* was started gets an outcome and the loop goes on with the next item.
C2_NeverThrows ==
  /\ pc # "threw"
  /\ pc = "loop" => Len(results) = i - 1

\* C3 as stated: within one sendAndVerify call the message lands at the
\* contact at most once.
C3_LandsAtMostOnce == VerifyMode => obs.landed <= 1

\* C3 as amended: within one sendAndVerify call the message lands at most once
\* per attempt, at most maxVerifyRetries + 1 attempts are made, and once the
\* call has ended no send of it is awaited.
C3_LandsAtMostOncePerAttempt ==
  VerifyMode =>
    /\ obs.landed <= obs.attempts
    /\ obs.attempts <= maxVerifyRetries + 1
    /\ obs.done => inflight = {}

\* A sendAndVerify call whose message has landed twice, in two attempts.
C3_Witness == VerifyMode /\ obs.landed = 2 /\ obs.attempts = 2

\* C4: when the already-sent check of sendAndVerify reads a last message from
\* us equal to the message, the call ends at once with success and alreadySent,
\* and no send is issued.
C4_AlreadySentNoSend ==
  (VerifyMode /\ obs.item >= 1 /\ obs.alreadySentRead = ObsMessage) =>
    /\ obs.sends = 0
    /\ obs.done
    /\ ObsOutcome = [contact |-> ObsContactId, success |-> TRUE, alreadySent |-> TRUE]

\* The already-sent check has read the very message of the item.
C4_Witness ==
  /\ VerifyMode
  /\ obs.item >= 1
  /\ obs.alreadySentRead = ObsMessage
  /\ obs.done

\* C5: when the verification read mismatches (or finds nothing) on every
\* attempt, sendAndVerify ends in failure with a verification error after
\* exactly maxVerifyRetries + 1 attempts, and never starts a further one.
C5_FailsAfterAllAttempts ==
  VerifyMode =>
    /\ obs.attempts <= maxVerifyRetries + 1
    /\ (obs.done /\ obs.attempts >= 1 /\ obs.verifyMismatches = obs.attempts) =>
         /\ obs.attempts = maxVerifyRetries + 1
         /\ ~ObsOutcome.success
         /\ ObsOutcome.error \in {ErrVerifyNone, ErrVerifyMismatch}

\* A call with one retry has ended after two attempts that both mismatched.
C5_Witness ==
  /\ VerifyMode
  /\ maxVerifyRetries = 1
  /\ obs.done
  /\ obs.attempts = 2
  /\ obs.verifyMismatches = 2

\* C6: with sendTimeoutMs > 0, an item all of whose sends were given up on
\* timeout ends in failure with the 'Send timeout' error, and a send the loop
\* is waiting for never holds the batch up: runBatch goes on to return with one
\* outcome per item.
C6_TimeoutFailsItemOnly ==
  /\ []((~useBrowserSend /\ obs.done /\ obs.sends >= 1 /\ obs.timeouts = obs.sends) =>
          (~ObsOutcome.success /\ ObsOutcome.error = ErrTimeout))
  /\ (sendTimeoutMs > 0 /\ Awaiting) ~> (pc = "returned" /\ Len(results) = Len(items))

\* The first item's send was given up on timeout and the second item was
\* processed after it.
C6_Witness ==
  /\ pc = "returned"
  /\ Len(results) = 2
  /\ ~results[1].success
  /\ results[1].error = ErrTimeout
  /\ results[2].success
  /\ abandoned # {}

\* C7 as stated: at every moment at most one transport operation is
\* outstanding on the client, and it belongs to the item being processed.
C7_OneOutstanding ==
  /\ Cardinality(inflight \cup abandoned) <= 1
  /\ \A op \in inflight \cup abandoned : op.item = i

\* C7 as amended: the loop awaits at most one transport operation, which belongs
\* to the item being processed; besides it only sends given up on timeout are
\* outstanding (none when no timer is armed), each of the current or an earlier item.
C7_OneAwaited ==
  /\ Cardinality(inflight) <= 1
  /\ \A op \in inflight : op.item = i /\ Awaiting
  /\ ~TimerArmed(sendTimeoutMs) => abandoned = {}
  /\ \A op \in abandoned : op.item <= i /\ op \notin inflight

\* The loop awaits a send while a send given up on timeout is still outstanding.
C7_Witness == inflight # {} /\ abandoned # {}

\* C8 as stated: when runBatch returns, sent + failed equals the number of
\* entries of results whose success is true or false.
C8_SentPlusFailedIsAll ==
  pc = "returned" =>
    sent + failed = Cardinality({k \in 1..Len(results) : results[k].success \in BOOLEAN})

\* C8 as amended: when runBatch returns, every entry carries success true or
\* false, and sent + failed equals the number of entries without a skip flag.
C8_SentPlusFailedIsUnskipped ==
  pc = "returned" =>
    /\ \A k \in 1..Len(results) : results[k].success \in BOOLEAN
    /\ sent + failed = Cardinality({k \in 1..Len(results) : ~SkipFlagged(results[k])})

\* A batch has returned with a skipped item and an item that was not skipped.
C8_Witness ==
  /\ pc = "returned"
  /\ \E k \in 1..Len(results) : SkipFlagged(results[k])
  /\ \E k \in 1..Len(results) : ~SkipFlagged(results[k])

\* C9: with skipIfEverSent on, an item whose last message from us has a
\* non-empty body gets no send, exactly the outcome { contact, success: true,
\* skippedAlreadyReceived: true } and leaves sent and failed as they were; an
\* item without a message from us proceeds to the delivery.
C9_EverSentSkip ==
  (skipIfEverSent /\ obs.policyRead # NotRead) =>
    /\ obs.policyRead \notin {Null, ""} =>
         /\ obs.sends = 0
         /\ ~obs.delivered
         /\ obs.done
         /\ ObsOutcome = [contact |-> ObsContactId, success |-> TRUE,
                          skippedAlreadyReceived |-> TRUE]
         /\ obs.sent1 = obs.sent0
         /\ obs.failed1 = obs.failed0
    /\ obs.policyRead = Null => obs.delivered

\* An item was skipped because a message from us was found.
C9_Witness ==
  /\ skipIfEverSent
  /\ obs.policyRead = "Hi"
  /\ obs.done
  /\ Len(results) >= 2

\* The calendar day a Unix timestamp falls on
DayOf(seconds) == seconds \div SecondsPerDay

\* C10: with skipIfEverSent off and skipIfSentToday on, an item whose last
\* message from us is of today's date gets no send and the outcome { contact,
\* success: true, skippedSameDay: true }; an item whose last message from us is
\* of an earlier day, or that has none, proceeds to the delivery.
C10_SentTodaySkip ==
  (~skipIfEverSent /\ skipIfSentToday /\ obs.policyRead # NotRead) =>
    IF obs.policyRead # Null /\ DayOf(obs.policyTs) = DayOf(obs.policyNow)
    THEN /\ obs.sends = 0
         /\ ~obs.delivered
         /\ obs.done
         /\ ObsOutcome = [contact |-> ObsContactId, success |-> TRUE, skippedSameDay |-> TRUE]
    ELSE /\ obs.delivered
         /\ obs.done => ~SkipFlagged(ObsOutcome)

\* An item was skipped because the last message from us is of today.
C10_Witness ==
  /\ ~skipIfEverSent
  /\ skipIfSentToday
  /\ obs.done
  /\ obs.policyRead # NotRead
  /\ "skippedSameDay" \in DOMAIN ObsOutcome

\* The run is one the run-batch script starts with --force
ForcedRun ==
  \E envSkipIfEverSent \in BOOLEAN, useApiSend \in BOOLEAN :
    LET forced == ScriptOptions(TRUE, envSkipIfEverSent, useApiSend)
    IN /\ options.skipIfEverSent = forced.skipIfEverSent
       /\ options.skipIfSentToday = forced.skipIfSentToday

\* At most one skip mode is looked up per item, the sent-today one only with
\* skipIfEverSent off, and no outcome carries both skip flags
OneSkipMode ==
  /\ obs.everReads + obs.todayReads <= 1
  /\ obs.todayReads >= 1 => ~skipIfEverSent /\ skipIfSentToday
  /\ obs.everReads >= 1 => skipIfEverSent
  /\ \A k \in 1..Len(results) :
       ~("skippedAlreadyReceived" \in DOMAIN results[k] /\ "skippedSameDay" \in DOMAIN results[k])

C12_HistoryErrorFailsOpen ==
  /\ getLastMessageFromMe([ok |-> FALSE, messages |-> << >>]) = Null
  /\ getLastMessageFromMeWithDate([ok |-> FALSE, messages |-> << >>]) = << >>
  /\ obs.policyRejected =>
       /\ obs.policyRead = Null
       /\ obs.policyTs = NotANumber
       /\ obs.delivered
       /\ obs.done => ~SkipFlagged(ObsOutcome)

\* The history read of a skip policy was rejected, and the item was sent.
C12_Witness ==
  /\ obs.policyRejected
  /\ obs.done
  /\ obs.sends >= 1
  /\ ObsOutcome.success

\* C13: once a disconnect has been recorded, no send is attempted for an item
\* that had not been started by then, and the run ends with a partial result,
\* not a completed one.
C13_DisconnectEndsBatch ==
  /\ (batchAborted /\ obs.item > abortedAt) => obs.sends = 0
  /\ (batchAborted /\ pc = "exited") => summary # "completed"

\* C14: whenever a disconnect was recorded while runBatch was looping, the
\* script reports the batch as partial once the loop is over, both when
\* runBatch returned a report and when it threw.
C14_DisconnectReportedPartial ==
  (batchAborted /\ pc = "exited") => summary = "partial"

C16_RetriedIsAttemptIndex ==
  (/\ VerifyMode
   /\ obs.done
   /\ ObsOutcome.success
   /\ ~SkipFlagged(ObsOutcome)
   /\ "alreadySent" \notin DOMAIN ObsOutcome) =>
    LET k == obs.attempts - 1
    IN /\ k >= 0
       /\ k <= maxVerifyRetries
       /\ obs.verifyReads = obs.verifyMismatches + 1
       /\ IF k > 0
          THEN "retried" \in DOMAIN ObsOutcome /\ ObsOutcome.retried = k
          ELSE "retried" \notin DOMAIN ObsOutcome

\* One verification read mismatched, the next attempt matched: retried is 1.
C16_Witness ==
  /\ VerifyMode
  /\ obs.done
  /\ obs.verifyMismatches = 1
  /\ obs.verifyReads = 2
  /\ "retried" \in DOMAIN ObsOutcome
  /\ ObsOutcome.retried = 1

\* sendOnce makes no verification read and has no retry loop
SendOnceIsBare ==
  (~useBrowserSend /\ skipVerify) =>
    /\ obs.verifyReads = 0
    /\ obs.alreadySentRead = NotRead
    /\ obs.attempts <= 1

ChatHits(answers, id) ==
  IF answers.chats.kind # "ok" THEN {}
  ELSE { k \in 1..Len(answers.chats.list) :
           /\ answers.chats.list[k] # NoId
           /\ contactDigits(answers.chats.list[k]) = contactDigits(id) }

\* C18: resolveChatId never throws and returns the first result available in
\* this order: the id of an existing chat matching the target digits, else the
\* alias (lid) of the alias/phone lookup, else its phone form (pn), else the
\* canonical id of getNumberId, else the original identity unchanged; a step
\* that is absent on the client or that rejects is skipped, so when every step
\* fails the original identity is returned.
C18_ResolutionOrder ==
  call.fn = "resolveChatId" =>
    LET a == call.answers
        hits == ChatHits(a, call.contact)
        pair == IF a.lidpn.kind = "ok" /\ a.lidpn.list # << >> THEN a.lidpn.list[1]
                ELSE [lid |-> NoId, pn |-> NoId]
        wid == IF a.wid.kind = "ok" THEN a.wid.id ELSE NoId
    IN /\ hits # {} =>
            \E k \in hits : /\ call.result = a.chats.list[k]
                            /\ \A m \in hits : k <= m
       /\ (hits = {} /\ pair.lid # NoId) => call.result = pair.lid
       /\ (hits = {} /\ pair.lid = NoId /\ pair.pn # NoId) => call.result = pair.pn
       /\ (hits = {} /\ pair.lid = NoId /\ pair.pn = NoId /\ wid # NoId) =>
            call.result = wid
       /\ (hits = {} /\ pair.lid = NoId /\ pair.pn = NoId /\ wid = NoId) =>
            call.result = call.contact
       /\ (a.chats.kind # "ok" /\ a.lidpn.kind # "ok" /\ a.wid.kind # "ok") =>
            call.result = call.contact

\* getChats rejected, the lookup knew the phone form only: that form is returned
C18_Witness ==
  /\ call.fn = "resolveChatId"
  /\ call.answers.chats.kind = "rejected"
  /\ call.answers.lidpn.kind = "ok"
  /\ call.answers.lidpn.list # << >>
  /\ call.answers.lidpn.list[1].lid = NoId
  /\ call.answers.wid.kind = "ok"
  /\ call.answers.wid.id = CanonicalId
  /\ call.result = PhoneOfLookup

\* C19: for an item whose contact string is empty or contains no digits, the
\* batch fails that item fast with an invalid-contact outcome and performs no
\* transport call for it: no identity lookup, no history read and no send.
C19_InvalidContactFailsFast ==
  (obs.item >= 1 /\ StripNonDigits(items[obs.item].contact) = << >>) =>
    /\ obs.lookups = 0
    /\ obs.everReads = 0
    /\ obs.todayReads = 0
    /\ obs.alreadySentRead = NotRead
    /\ obs.verifyReads = 0
    /\ obs.sends = 0
    /\ obs.done => (~ObsOutcome.success /\ ~SkipFlagged(ObsOutcome))

\* C20: normalizeContactId returns its input unchanged whenever the contact
\* already carries an identity suffix (contains '@'), whatever stands before
\* the suffix; only suffix-less contacts are stripped to digits, length-repaired
\* and suffixed with '@c.us'.
C20_SuffixedContactUnchanged ==
  call.fn = "normalizeContactId" =>
    /\ Includes(call.contact, "@") => call.result = call.contact
    /\ call.result # call.contact =>
         /\ ~Includes(call.contact, "@")
         /\ call.result = ensureBrazilian13Digits(StripNonDigits(call.contact)) \o AtCUs

\* C21: ensureBrazilian13Digits is idempotent: applied to its own result it
\* returns that result, and a string that already has 13 digits is returned
\* unchanged.
C21_EnsureIdempotent ==
  call.fn = "ensureBrazilian13Digits" =>
    /\ call.again = call.result
    /\ Len(call.digits) = BrazilLen => call.result = call.digits

\* a string of 11 digits was repaired (two insertions) and the repair re-applied
C21_Witness ==
  /\ call.fn = "ensureBrazilian13Digits"
  /\ Len(call.digits) = BrazilLen - 2
  /\ call.result # call.digits
  /\ call.again = call.result

\* n times the digit '9'
Nines(n) == [k \in 1..n |-> "9"]

\* C22: for a digit string of length 4 to 12, ensureBrazilian13Digits returns
\* a 13-digit string obtained by inserting only '9' characters right after the
\* 4th digit, keeping all original digits in their order; strings shorter than
\* 4 or of 13 or more digits are returned unchanged; normalizeContactWithFix
\* reports wasFixed exactly when a digit was inserted.
C22_RepairInsertsNines ==
  /\ call.fn = "ensureBrazilian13Digits" =>
       LET d == call.digits
       IN IF Len(d) >= AreaPrefixLen /\ Len(d) < BrazilLen
          THEN /\ Len(call.result) = BrazilLen
               /\ call.result = SubSeq(d, 1, AreaPrefixLen) \o Nines(BrazilLen - Len(d))
                                  \o SubSeq(d, AreaPrefixLen + 1, Len(d))
          ELSE call.result = d
  /\ call.fn = "normalizeContactWithFix" =>
       (call.result.wasFixed <=>
          Len(StripNonDigits(call.result.normalized)) > Len(StripNonDigits(call.contact)))

\* Scenario E: '554799512346' is repaired to '5547999512346' and reported as fixed
C22_Witness ==
  /\ call.fn = "normalizeContactWithFix"
  /\ call.contact = Contact12
  /\ call.result.wasFixed
  /\ call.result.normalized =
       <<"5", "5", "4", "7", "9", "9", "9", "5", "1", "2", "3", "4", "6">> \o AtCUs

\* C23: for all integers min <= max, randomDelayMs(min, max) returns an
\* integer of [min, max], and every value of that range is a possible result;
\* whenever min >= max it returns min.
C23_RandomDelayInRange ==
  call.fn = "randomDelayMs" =>
    /\ call.minMs <= call.maxMs =>
         /\ call.result \in call.minMs..call.maxMs
         /\ call.possible = call.minMs..call.maxMs
    /\ call.minMs >= call.maxMs =>
         /\ call.result = call.minMs
         /\ call.possible = {call.minMs}

\* the largest value of a range of several values was drawn
C23_Witness ==
  /\ call.fn = "randomDelayMs"
  /\ call.maxMs >= call.minMs + 2
  /\ call.result = call.maxMs

\* The positions of the log at which `event` stands
Positions(event) == { k \in 1..Len(obs.log) : obs.log[k] = event }

\* C24: runBatch calls onProgress exactly once per item, in input order, with
\* (i+1, items.length, normalized identity of item i); the call for item i
\* happens after the outcome of item i-1 was appended and before any send for
\* item i, and it is made also for items that the skip policy then skips.
C24_ProgressOncePerItem ==
  /\ obs.progressCalls = obs.item
  /\ pc = "returned" => obs.progressCalls = total
  /\ obs.item >= 1 =>
       /\ Cardinality(Positions("progress")) = 1
       /\ obs.progressArgs = <<obs.item, Len(items), ObsContactId>>
       /\ obs.progressAt = obs.item - 1
       /\ \A p \in Positions("progress") : \A k \in Positions("send") : p < k
       /\ obs.sends >= 1 => Positions("send") # {}

\* the second item was reported and then skipped by a policy
C24_Witness ==
  /\ obs.item = 2
  /\ obs.done
  /\ SkipFlagged(ObsOutcome)
  /\ obs.progressArgs = <<2, 2, ObsContactId>>
  /\ obs.progressAt = 1

\* C25: in sendAndVerify, whenever an attempt ends in a verification mismatch
\* (or no message from us is found) and attempts remain, a wait takes place
\* before the next send is issued: the send of attempt k+1 never directly
\* follows the verification read of attempt k without an intervening delay.
C25_WaitBeforeResend ==
  \A k \in Positions("verify") : k < Len(obs.log) => obs.log[k + 1] # "send"

\* C26: the randomized pacing delay is applied exactly once per item, before
\* any transport call for that item; retries inside sendAndVerify never apply
\* the pacing delay and use only the fixed verifyDelayMs.
C26_PacedOncePerItem ==
  obs.item >= 1 =>
    /\ Positions("pace") = {1}
    /\ obs.attempts >= 2 => "wait" \in { obs.log[k] : k \in 1..Len(obs.log) }

\* a send was retried after a failure: the item was paced once, the retry waited
C26_Witness ==
  /\ obs.attempts = 2
  /\ obs.sends >= 2
  /\ obs.verifyReads = 0
  /\ Positions("pace") = {1}
  /\ Positions("wait") # {}

\* C27: for every finite item list, with sendTimeoutMs > 0, a finite
\* maxVerifyRetries and lookups that always settle, runBatch in verify or
\* skipVerify mode eventually returns a report even if every send never
\* settles; each item performs at most maxVerifyRetries + 1 attempts.
C27_BatchTerminates ==
  /\ [](~useBrowserSend => obs.attempts <= maxVerifyRetries + 1)
  /\ [](skipVerify => obs.attempts <= 1)
  /\ (sendTimeoutMs > 0 /\ ~useBrowserSend) =>
       <>(pc = "returned" /\ Len(results) = Len(items) /\ sent + failed <= Len(items))

\* runBatch returned although no send of the batch ever settled: every send
\* was given up on timeout and is still outstanding
C27_Witness ==
  /\ pc = "returned"
  /\ Len(items) = 2
  /\ \A k \in 1..Len(results) : ~results[k].success /\ results[k].error = ErrTimeout
  /\ Cardinality(abandoned) = 2
  /\ failed = 2

\* The positions of the outcomes of each kind
FailedOutcomes == { k \in 1..Len(results) : ~results[k].success }
DeliveredOutcomes == { k \in 1..Len(results) : results[k].success /\ ~SkipFlagged(results[k]) }
SkippedOutcomes == { k \in 1..Len(results) : SkipFlagged(results[k]) }

\* C29: when runBatch returns, failed equals the number of outcomes with
\* success false, sent the number of outcomes with success true that carry no
\* skip flag (outcomes short-circuited as alreadySent are counted in sent), and
\* sent + failed + the number of policy-skipped outcomes equals items.length.
C29_CountersMatchOutcomes ==
  pc = "returned" =>
    /\ failed = Cardinality(FailedOutcomes)
    /\ sent = Cardinality(DeliveredOutcomes)
    /\ \A k \in 1..Len(results) :
         "alreadySent" \in DOMAIN results[k] => k \in DeliveredOutcomes
    /\ sent + failed + Cardinality(SkippedOutcomes) = Len(items)

\* a batch returned with an outcome short-circuited as alreadySent and a failure
C29_Witness ==
  /\ pc = "returned"
  /\ \E k \in 1..Len(results) : "alreadySent" \in DOMAIN results[k]
  /\ \E k \in 1..Len(results) : ~results[k].success
  /\ sent = 1
  /\ failed = 1

\* C30: in the run-batch script the batch is started at most once per
\* process: if the client emits 'ready' more than once (before, during or after
\* the batch), runBatch is invoked only for the first event, so no item is ever
\* processed by two concurrent runs over the shared client.
C30_BatchStartedOnce ==
  /\ batchRuns <= 1
  /\ batchRuns = (IF readyEvents >= 1 THEN 1 ELSE 0)
  /\ batchAlreadyStarted <=> readyEvents >= 1
  /\ pc = "idle" <=> batchRuns = 0

\* 'ready' was emitted again while the batch was sending; the batch went on alone
C30_Witness ==
  /\ readyEvents = 2
  /\ batchRuns = 1
  /\ Awaiting
  /\ obs.item = 2

\* The person the item `obs` is about writes to
ObsPerson == contactDigits(ObsContactId)

\* An earlier item of this run wrote to the same contact and a send was issued
\* for it: it succeeded by a send, or failed after one
EarlierSendIssued ==
  \E k \in 1..(obs.item - 1) :
    /\ normalizeContactId(items[k].contact) = ObsContactId
    /\ IF results[k].success
       THEN ~SkipFlagged(results[k]) /\ "alreadySent" \notin DOMAIN results[k]
       ELSE results[k].error \notin {ErrNoBrowser, ErrInvalidDigits}

\* The re-run leaves alone whom the first run reached
RerunSendsNothing ==
  (run = 2 /\ obs.item >= 1 /\ ObsPerson \in received /\ ~obs.policyRejected) =>
    /\ obs.sends = 0
    /\ obs.done => ObsOutcome = [contact |-> ObsContactId, success |-> TRUE,
                                 skippedAlreadyReceived |-> TRUE]

\* C28 as stated: with the default skip policy and a transport whose history
\* faithfully returns the messages it accepted, re-running runBatch over the
\* same items issues zero sends to every contact that received a message in
\* the first run, and a contact that appears twice in one batch is sent to at
\* most once.
C28_RerunAndDuplicateSendNothing ==
  /\ RerunSendsNothing
  /\ (obs.item >= 1 /\ ~obs.policyRejected /\ EarlierSendIssued) => obs.sends = 0

\* C28 as amended: the re-run issues no send to a contact that received a
\* message in the first run; a contact that appears twice in one batch is sent
\* to again only when the history read of the later occurrence showed no
\* message from us, and never when the transport answered every call well.
C28_RerunSendsNothingDuplicateMay ==
  /\ RerunSendsNothing
  /\ (obs.item >= 1 /\ EarlierSendIssued /\ obs.sends >= 1) =>
       obs.policyRead \in {Null, ""}
  /\ (obs.item >= 1 /\ EarlierSendIssued /\ faults = 0) => obs.sends = 0

\* In the re-run the second item was skipped because its contact had received
\* the message of the first run
C28_Witness ==
  /\ run = 2
  /\ obs.item = 2
  /\ obs.done
  /\ ObsPerson \in received
  /\ obs.sends = 0
  /\ SkipFlagged(ObsOutcome)
  /\ items[1].contact # items[2].contact

====
